---- MODULE Spec2Model ----
(***************************************************************************)
(* Model of the thumbnail generator backend: the request handlers of the   *)
(* image controller (generateImages, generateFromImage), the prompt        *)
(* composer (generateEnhancedPrompt), the generation orchestrator          *)
(* (ImageGenerator in utils/imageGenerator.js), the uploader and the       *)
(* per-user history.                                                       *)
(*                                                                         *)
(* A JavaScript string is modelled as a sequence of non-empty pieces, so   *)
(* that "" is the empty sequence and concatenation is \o.  A handler runs  *)
(* without interruption up to its next await; every await is a position    *)
(* of the controller (pc) or of a slot (slot[i].pc).                       *)
(***************************************************************************)
EXTENDS Integers, Sequences, FiniteSets, TLC

\* ---------------------------------------------------------------- bounds
\* largest image count a request of the model asks for (the clamp allows 4)
MaxCount == 2
\* largest number of parts (Gemini) or data items (OpenAI) in one response
MaxParts == 2

\* ------------------------------------------------------- program constants
HistoryCap == 100
RateLimitStatus == 429

VARIABLES
  env,          \* process.env: which API keys are set
  req,          \* the request being handled (body, file)
  pc,           \* position of the controller handler
  finalPrompt,  \* the handler's finalPrompt
  slot,         \* the generation slots of the orchestrator call
  order,        \* the slots in the order in which they completed
  images,       \* the buffers returned by the orchestrator
  imageUrls,    \* the URLs returned by the uploader
  calls,        \* calls made to the enhancer and the uploader, enhancer outcome
  userDoc,      \* generationHistory of the user document loaded by the handler
  res,          \* the HTTP response
  history,      \* generationHistory of the user as stored in the database
  probe         \* input and result of a function or method applied on its own

vars == <<env, req, pc, finalPrompt, slot, order, images, imageUrls, calls,
          userDoc, res, history, probe>>

\* ------------------------------------------------------------- JS helpers
\* truthiness of a string value of the request body
Truthy(v) == v \notin {"", "undefined", "false"}

\* a string value as a sequence of pieces
Str(v) == IF v = "" THEN <<>> ELSE <<v>>

RECURSIVE Join(_, _)
\* Array.prototype.join: the elements separated by sep
Join(parts, sep) ==
  IF Len(parts) = 0 THEN <<>>
  ELSE IF Len(parts) = 1 THEN parts[1]
  ELSE parts[1] \o sep \o Join(Tail(parts), sep)

\* ---------------------------------------------------------- prompt composer
QualitySuffix ==
  <<", ", "high quality, professional, eye-catching, clean composition">>

PreservationClauses ==
  << <<"maintaining key visual elements from the reference image">>,
     <<"preserving the original composition and subject matter">>,
     <<"enhancing while keeping recognizable features">> >>

\* the clause of one field, or no clause when the field is falsy
Clause(cond, c) == IF cond THEN <<c>> ELSE <<>>

TextOverlayClause(f) ==
  IF Truthy(f.includeText) /\ Truthy(f.textStyle)
    THEN << <<"featuring ", f.textStyle, " text overlay">> >>
  ELSE IF Truthy(f.includeText) THEN << <<"with text overlay">> >>
  ELSE <<>>

\* variant: the clauses follow the order in which the fields are destructured
PromptPartsKeyOrder(f, isImageToImage) ==
     Clause(Truthy(f.category), <<f.category, " style">>)
  \o Clause(Truthy(f.mood), <<f.mood, " mood">>)
  \o Clause(Truthy(f.theme), <<"with ", f.theme, " theme">>)
  \o Clause(Truthy(f.primaryColor), <<"dominant ", f.primaryColor, " color palette">>)
  \o TextOverlayClause(f)
  \o Clause(Truthy(f.thumbnailStyle), <<f.thumbnailStyle, " thumbnail">>)
  \o (IF isImageToImage THEN PreservationClauses ELSE <<>>)

PromptParts(f, isImageToImage) ==
     Clause(Truthy(f.category), <<f.category, " style">>)
  \o Clause(Truthy(f.thumbnailStyle), <<f.thumbnailStyle, " thumbnail">>)
  \o Clause(Truthy(f.theme), <<"with ", f.theme, " theme">>)
  \o Clause(Truthy(f.mood), <<f.mood, " mood">>)
  \o Clause(Truthy(f.primaryColor), <<"dominant ", f.primaryColor, " color palette">>)
  \o TextOverlayClause(f)
  \o (IF isImageToImage THEN PreservationClauses ELSE <<>>)

\* variant: the preservation clauses are added in both modes
generateEnhancedPromptAlwaysPreserving(f, isImageToImage) ==
  LET seed == IF Truthy(f.customPrompt) THEN Str(f.customPrompt) ELSE <<>>
      structured == Join(PromptParts(f, TRUE), <<", ">>)
  IN (IF Len(seed) > 0 THEN seed \o <<", ">> \o structured ELSE structured)
       \o QualitySuffix

generateEnhancedPrompt(f, isImageToImage) ==
  LET seed == IF Truthy(f.customPrompt) THEN Str(f.customPrompt) ELSE <<>>
      promptParts == PromptParts(f, isImageToImage)
      structured == Join(promptParts, <<", ">>)
      prompt == IF Len(promptParts) > 0
                  THEN (IF Len(seed) > 0 THEN seed \o <<", ">> \o structured
                        ELSE structured)
                  ELSE seed
  IN prompt \o QualitySuffix

\* ------------------------------------------------- response normalisation
\* the positions of the parts of a response that satisfy Keep, as the
\* buffers <<slot, position>> decoded from them, in arrival order
CollectFrom(i, parts, Keep) ==
  LET idx == [k \in 1..Len(parts) |-> k]
      sel == SelectSeq(idx, LAMBDA k: parts[k] \in Keep)
  IN [j \in 1..Len(sel) |-> <<i, sel[j]>>]

\* a part of a Gemini response: text only, inlineData only, or both
GeminiPartKinds == {"text", "image", "both"}

\* an item of an OpenAI response: with or without b64_json
OpenAIItemKinds == {"b64", "nob64"}

SeqsUpTo(S, n) == UNION {[1..m -> S] : m \in 0..n}

\* a response without candidates or parts collects like one with no part
GeminiResponses == SeqsUpTo(GeminiPartKinds, MaxParts)
OpenAIResponses == SeqsUpTo(OpenAIItemKinds, MaxParts)

\* first attempt: a part with text is logged, otherwise inlineData is decoded
CollectGemini(i, parts) == CollectFrom(i, parts, {"image"})

\* every item with b64_json is decoded
CollectOpenAI(i, data) == CollectFrom(i, data, {"b64"})

\* ------------------------------------------------------------ orchestrator
IdleSlot ==
  [pc |-> "idle", gemini |-> 0, openai |-> 0, first |-> "none", result |-> <<>>]

\* variant: the credential check is missing
geminiKeySetUnchecked == TRUE

\* the check that opens generateImages and generateImagesFromImage
geminiKeySet == env.gemini

\* variant: text-to-image slots after the first wait like image-to-image ones
generateSingleImageDelayed(i) ==
  IF i > 1 THEN [IdleSlot EXCEPT !.pc = "delay"]
  ELSE [IdleSlot EXCEPT !.pc = "openai", !.openai = 1]

\* generateSingleImage up to its first await: the OpenAI call is issued
generateSingleImage(i) == [IdleSlot EXCEPT !.pc = "openai", !.openai = 1]

\* variant: no slot waits before its Gemini call
generateSingleImageFromImageNoDelay(i) ==
  [IdleSlot EXCEPT !.pc = "gemini", !.gemini = 1]

\* generateSingleImageFromImage up to its first await: slot 1 issues the
\* Gemini call, every later slot first waits for its delay timer
generateSingleImageFromImage(i) ==
  IF i > 1 THEN [IdleSlot EXCEPT !.pc = "delay"]
  ELSE [IdleSlot EXCEPT !.pc = "gemini", !.gemini = 1]

\* the loop that pushes the slot promises
LaunchSlots(mode, count) ==
  [i \in 1..MaxCount |->
     IF i > count THEN IdleSlot
     ELSE IF mode = "text" THEN generateSingleImage(i)
     ELSE generateSingleImageFromImage(i)]

RECURSIVE Flatten(_, _)
\* the buffers of the slots listed in ord, concatenated in that order
Flatten(results, ord) ==
  IF Len(ord) = 0 THEN <<>>
  ELSE results[Head(ord)] \o Flatten(results, Tail(ord))

\* variant: the results are taken as the slots complete
PromiseRaceOrder(count, completion) == completion

\* Promise.all resolves to the results in the order of the promise array
PromiseAllOrder(count, completion) == [i \in 1..count |-> i]

Running == pc = "generate"

\* the slot promise settles
Complete(i, s) ==
  /\ slot' = [slot EXCEPT ![i] = s]
  /\ order' = Append(order, i)

\* the slot promise resolves with the buffers bufs
Return(s, bufs) == [s EXCEPT !.pc = "done", !.result = bufs]

\* what a slot does after the primary provider failed: the fallback call
Fallback(s) == [s EXCEPT !.pc = "openai", !.openai = @ + 1]

\* the 2 second timer of a slot other than the first fires
DelayElapsed(i) ==
  /\ Running /\ slot[i].pc = "delay"
  /\ slot' = [slot EXCEPT ![i] = [@ EXCEPT !.pc = "gemini", !.gemini = @ + 1]]
  /\ UNCHANGED <<probe, env, req, pc, finalPrompt, order, images, imageUrls, calls,
                 userDoc, res, history>>

\* the first Gemini call returns a response
GeminiReturns(i, parts) ==
  /\ Running /\ slot[i].pc = "gemini"
  /\ LET bufs == CollectGemini(i, parts) IN
       IF Len(bufs) > 0
         THEN Complete(i, Return([slot[i] EXCEPT !.first = "ok"], bufs))
         ELSE /\ slot' = [slot EXCEPT ![i] = Fallback([@ EXCEPT !.first = "empty"])]
              /\ UNCHANGED order
  /\ UNCHANGED <<probe, env, req, pc, finalPrompt, images, imageUrls, calls, userDoc,
                 res, history>>

\* variant: every error of the first Gemini call is retried after the backoff
GeminiThrowsRetryAny(i, status) ==
  /\ Running /\ slot[i].pc = "gemini"
  /\ slot' = [slot EXCEPT ![i] =
                [@ EXCEPT !.pc = "backoff",
                          !.first = IF status = RateLimitStatus
                                      THEN "ratelimit" ELSE "error"]]
  /\ UNCHANGED <<probe, env, req, pc, finalPrompt, order, images, imageUrls, calls,
                 userDoc, res, history>>

\* the first Gemini call throws an error with the given status
GeminiThrows(i, status) ==
  /\ Running /\ slot[i].pc = "gemini"
  /\ slot' = [slot EXCEPT ![i] =
                IF status = RateLimitStatus
                  THEN [@ EXCEPT !.first = "ratelimit", !.pc = "backoff"]
                  ELSE Fallback([@ EXCEPT !.first = "error"])]
  /\ UNCHANGED <<probe, env, req, pc, finalPrompt, order, images, imageUrls, calls,
                 userDoc, res, history>>

\* the 5 second timer fires and the retry block runs: it reads
\* enhancedPrompt, a const of the try block that is not in scope in the
\* catch block, so building retryPromptArray throws a ReferenceError before
\* the provider is called; the inner catch logs it and the slot falls back
BackoffElapsed(i) ==
  /\ Running /\ slot[i].pc = "backoff"
  /\ slot' = [slot EXCEPT ![i] = Fallback(@)]
  /\ UNCHANGED <<probe, env, req, pc, finalPrompt, order, images, imageUrls, calls,
                 userDoc, res, history>>

\* the OpenAI call returns a response (text-to-image, or the fallback)
OpenAIReturns(i, data) ==
  /\ Running /\ slot[i].pc = "openai"
  /\ env.openai
  /\ Complete(i, Return(slot[i], CollectOpenAI(i, data)))
  /\ UNCHANGED <<probe, env, req, pc, finalPrompt, images, imageUrls, calls, userDoc,
                 res, history>>

\* variant: the error leaves the slot
SlotRethrow(s) == [s EXCEPT !.pc = "rejected"]

\* the OpenAI call throws: the slot logs the error and returns []
SlotCatch(s) == Return(s, <<>>)

\* variant: a failed OpenAI call is issued a second time
OpenAIThrowsRetried(i) ==
  /\ Running /\ slot[i].pc = "openai"
  /\ IF slot[i].openai < 2
       THEN /\ slot' = [slot EXCEPT ![i] = [@ EXCEPT !.openai = @ + 1]]
            /\ UNCHANGED order
       ELSE Complete(i, SlotCatch(slot[i]))
  /\ UNCHANGED <<probe, env, req, pc, finalPrompt, images, imageUrls, calls, userDoc,
                 res, history>>

OpenAIThrows(i) ==
  /\ Running /\ slot[i].pc = "openai"
  /\ Complete(i, SlotCatch(slot[i]))
  /\ UNCHANGED <<probe, env, req, pc, finalPrompt, images, imageUrls, calls, userDoc,
                 res, history>>

\* ------------------------------------------------------------- controller
Respond(status, error, details, urls) ==
  /\ pc' = "done"
  /\ res' = [status |-> status, error |-> error, details |-> details,
             images |-> urls]

\* the catch block of a handler: details is the message of the error caught
Respond500(details) == Respond(500, "Failed to generate images", details, <<>>)

\* the message of the error thrown by the orchestrator without the Gemini key
ConfigError == "GEMINI_API_KEY environment variable is not set"

\* from the `!finalPrompt` check to the await of the orchestrator call:
\* ImageGenerator.generateImages / generateImagesFromImage throw without the
\* Gemini key, otherwise they start every slot and await Promise.all
ValidateAndGenerate(fp) ==
  /\ finalPrompt' = fp
  /\ IF Len(fp) = 0
       THEN /\ Respond(400, "Prompt is required", "", <<>>)
            /\ UNCHANGED slot
     ELSE IF ~geminiKeySet
       THEN /\ Respond500(ConfigError)
            /\ UNCHANGED slot
     ELSE /\ pc' = "generate"
          /\ slot' = LaunchSlots(req.mode, req.count)
          /\ UNCHANGED res

\* `structuredPrompt || originalPrompt`, then the enhancer call if requested
ComposeAndContinue(isImageToImage) ==
  LET structuredPrompt == generateEnhancedPrompt(req.fields, isImageToImage)
      fp == IF Len(structuredPrompt) > 0 THEN structuredPrompt
            ELSE Str(req.prompt)
  IN IF req.enhancePrompt /\ Len(fp) > 0
       THEN /\ finalPrompt' = fp
            /\ pc' = "enhance"
            /\ calls' = [calls EXCEPT !.enhancer = @ + 1]
            /\ UNCHANGED <<slot, res>>
       ELSE /\ ValidateAndGenerate(fp)
            /\ UNCHANGED calls

\* POST /api/generate, up to its first await
generateImages ==
  /\ pc = "received" /\ req.mode = "text"
  /\ ComposeAndContinue(FALSE)
  /\ UNCHANGED <<probe, env, req, order, images, imageUrls, userDoc, history>>

\* variant: the handler does not look at req.file before composing
generateFromImageUnchecked ==
  /\ pc = "received" /\ req.mode = "image"
  /\ ComposeAndContinue(TRUE)
  /\ UNCHANGED <<probe, env, req, order, images, imageUrls, userDoc, history>>

\* POST /api/generate-from-image, up to its first await
generateFromImage ==
  /\ pc = "received" /\ req.mode = "image"
  /\ IF ~req.hasFile
       THEN /\ Respond(400, "Image file is required", "", <<>>)
            /\ UNCHANGED <<finalPrompt, slot, calls>>
       ELSE ComposeAndContinue(TRUE)
  /\ UNCHANGED <<probe, env, req, order, images, imageUrls, userDoc, history>>

\* PromptEnhancer.enhancePrompt: the completion's trimmed content, or the
\* prompt it was given when the call fails
EnhancerOutcomes == {"rewritten", "blank", "failed"}

\* variant: a failed call returns nothing instead of the prompt it was given
enhancePromptDropsPrompt(userPrompt, outcome) ==
  IF outcome = "rewritten" THEN <<"enhanced">> ELSE <<>>

enhancePrompt(userPrompt, outcome) ==
  IF outcome = "rewritten" THEN <<"enhanced">>
  ELSE IF outcome = "blank" THEN <<>>
  ELSE userPrompt

\* the enhancer call settles and the handler continues
EnhancerSettles(outcome) ==
  /\ pc = "enhance"
  /\ outcome # "failed" => env.openai
  /\ ValidateAndGenerate(enhancePrompt(finalPrompt, outcome))
  /\ calls' = [calls EXCEPT !.outcome = outcome]
  /\ UNCHANGED <<probe, env, req, order, images, imageUrls, userDoc, history>>

\* CloudinaryUploader.uploadMultiple starts one upload per buffer
uploadMultiple(bufs) == [calls EXCEPT !.upload = @ + Len(bufs)]

\* Promise.all of the slots settles and the orchestrator call ends, its
\* slots with it: the call throws when a slot promise rejected, otherwise it
\* returns the flattened results and the handler starts the uploads
SlotsSettle ==
  /\ pc = "generate"
  /\ IF \E i \in 1..req.count : slot[i].pc = "rejected"
       THEN /\ Respond500("slot rejected")
            /\ UNCHANGED <<images, calls>>
       ELSE /\ \A i \in 1..req.count : slot[i].pc = "done"
            /\ images' = Flatten([i \in 1..req.count |-> slot[i].result],
                                 PromiseAllOrder(req.count, order))
            /\ calls' = uploadMultiple(images')
            /\ pc' = "upload"
            /\ UNCHANGED res
  /\ slot' = [i \in 1..MaxCount |-> IdleSlot]
  /\ UNCHANGED <<probe, env, req, finalPrompt, order, imageUrls, userDoc, history>>

\* the secure_url of an uploaded buffer
UrlOf(b) == <<"url", b>>

\* variant: an empty list of buffers is answered as an error
UploadsSettleNeedsImages(ok) ==
  /\ pc = "upload"
  /\ ~ok => Len(images) > 0
  /\ IF ok /\ Len(images) > 0
       THEN /\ imageUrls' = [k \in 1..Len(images) |-> UrlOf(images[k])]
            /\ pc' = "finduser"
            /\ UNCHANGED res
       ELSE /\ Respond500("upload failed")
            /\ UNCHANGED imageUrls
  /\ UNCHANGED <<probe, env, req, finalPrompt, slot, order, images, calls, userDoc, history>>

\* Promise.all of the uploads settles; on success the handler looks the
\* user up (req.user is set by requireAuth)
UploadsSettle(ok) ==
  /\ pc = "upload"
  /\ ~ok => Len(images) > 0
  /\ IF ok
       THEN /\ imageUrls' = [k \in 1..Len(images) |-> UrlOf(images[k])]
            /\ pc' = "finduser"
            /\ UNCHANGED res
       ELSE /\ Respond500("upload failed")
            /\ UNCHANGED imageUrls
  /\ UNCHANGED <<probe, env, req, finalPrompt, slot, order, images, calls, userDoc, history>>

\* `includeText === "Yes" || includeText === true`
includeTextBoolean(v) == v \in {"Yes", "true"}

\* the record the handler passes to addToHistory
HistoryRecord ==
  [type |-> IF req.mode = "text" THEN "text-to-image" ELSE "image-to-image",
   originalPrompt |-> req.prompt,
   finalPrompt |-> finalPrompt,
   enhancedPrompt |-> req.enhancePrompt,
   fields |-> req.fields,
   includeText |-> includeTextBoolean(req.fields.includeText),
   imagesGenerated |-> Len(imageUrls),
   imageUrls |-> imageUrls]

\* variant: the new entry is pushed at the end
addToHistoryPush(h, rec) ==
  LET u == h \o <<rec>>
  IN IF Len(u) > HistoryCap THEN SubSeq(u, 1, HistoryCap) ELSE u

\* unshift, then keep the first 100 entries
addToHistory(h, rec) ==
  LET u == <<rec>> \o h
  IN IF Len(u) > HistoryCap THEN SubSeq(u, 1, HistoryCap) ELSE u

Respond200 == Respond(200, "", "", imageUrls)

\* User.findById settles: with a user the record is added and saved,
\* without one the handler answers directly
FindUserSettles(outcome) ==
  /\ pc = "finduser"
  /\ IF outcome = "found"
       THEN /\ userDoc' = addToHistory(history, HistoryRecord)
            /\ pc' = "save"
            /\ UNCHANGED res
     ELSE IF outcome = "missing"
       THEN /\ Respond200
            /\ UNCHANGED userDoc
     ELSE /\ Respond500("database error")
          /\ UNCHANGED userDoc
  /\ UNCHANGED <<probe, env, req, finalPrompt, slot, order, images, imageUrls, calls, history>>

\* variant: a failed save is ignored and the request answered as a success
SaveSettlesBestEffort(ok) ==
  /\ pc = "save"
  /\ history' = IF ok THEN userDoc ELSE history
  /\ Respond200
  /\ UNCHANGED <<probe, env, req, finalPrompt, slot, order, images, imageUrls, calls, userDoc>>

\* user.save() settles
SaveSettles(ok) ==
  /\ pc = "save"
  /\ IF ok
       THEN /\ history' = userDoc
            /\ Respond200
       ELSE /\ Respond500("database error")
            /\ UNCHANGED history
  /\ UNCHANGED <<probe, env, req, finalPrompt, slot, order, images, imageUrls, calls, userDoc>>

\* --------------------------------------------------------- specification
EmptyFields ==
  [category |-> "", mood |-> "", theme |-> "", primaryColor |-> "",
   includeText |-> "undefined", textStyle |-> "", thumbnailStyle |-> "",
   customPrompt |-> ""]

\* the request bodies of the model: nothing, a custom prompt, structured fields
FieldCases ==
  { EmptyFields,
    [EmptyFields EXCEPT !.customPrompt = "a cat"],
    [EmptyFields EXCEPT !.category = "gaming", !.includeText = "Yes"] }

Prompts == {"", "a dog"}

\* the prompt is only passed through by the orchestrator: every body is
\* combined with a single image, one body with every image count
Requests ==
  [mode : {"text", "image"}, count : {1}, hasFile : BOOLEAN,
   prompt : Prompts, fields : FieldCases, enhancePrompt : BOOLEAN]
  \cup
  [mode : {"text", "image"}, count : 2..MaxCount, hasFile : BOOLEAN,
   prompt : {"a dog"}, fields : {EmptyFields}, enhancePrompt : {FALSE}]

\* an entry written by an earlier request
OldRecord ==
  [type |-> "text-to-image", originalPrompt |-> "old", finalPrompt |-> <<"old">>,
   enhancedPrompt |-> FALSE, fields |-> EmptyFields, includeText |-> FALSE,
   imagesGenerated |-> 0, imageUrls |-> <<>>]

InitialHistory == <<OldRecord>>

\* no function is applied on its own
NoProbe == [fn |-> "none"]

Init ==
  /\ env \in [gemini : BOOLEAN, openai : BOOLEAN]
  /\ req \in Requests
  /\ req.mode = "text" => ~req.hasFile
  /\ pc = "received"
  /\ finalPrompt = <<>>
  /\ slot = [i \in 1..MaxCount |-> IdleSlot]
  /\ order = <<>>
  /\ images = <<>>
  /\ imageUrls = <<>>
  /\ calls = [enhancer |-> 0, upload |-> 0, outcome |-> "none"]
  /\ userDoc = <<>>
  /\ res = [status |-> 0, error |-> "", details |-> "", images |-> <<>>]
  /\ history = InitialHistory
  /\ probe = NoProbe

Next ==
  \/ generateImages
  \/ generateFromImage
  \/ \E o \in EnhancerOutcomes : EnhancerSettles(o)
  \/ \E i \in 1..MaxCount : DelayElapsed(i)
  \/ \E i \in 1..MaxCount, parts \in GeminiResponses : GeminiReturns(i, parts)
  \/ \E i \in 1..MaxCount, st \in {RateLimitStatus, 500} : GeminiThrows(i, st)
  \/ \E i \in 1..MaxCount : BackoffElapsed(i)
  \/ \E i \in 1..MaxCount, data \in OpenAIResponses : OpenAIReturns(i, data)
  \/ \E i \in 1..MaxCount : OpenAIThrows(i)
  \/ SlotsSettle
  \/ \E ok \in BOOLEAN : UploadsSettle(ok)
  \/ \E o \in {"found", "missing", "error"} : FindUserSettles(o)
  \/ \E ok \in BOOLEAN : SaveSettles(ok)

Spec == Init /\ [][Next]_vars

\* ------------------------------------------------------------ properties
Slots == 1..req.count

\* the provider calls a slot has issued
Invocations(i) == slot[i].gemini + slot[i].openai

\* the orchestrator call has returned its buffers to the handler
Returned == pc \in {"upload", "finduser", "save"} \/ (pc = "done" /\ Len(order) = req.count)

\* the buffers of the returned list that come from slot i
BuffersOf(list, i) == SelectSeq(list, LAMBDA b : b[1] = i)

\* no slot was started and no provider, upload or history call was made
NothingStarted ==
  /\ \A i \in 1..MaxCount : slot[i] = IdleSlot
  /\ order = <<>> /\ images = <<>>
  /\ calls.upload = 0
  /\ history = InitialHistory /\ userDoc = <<>>

\* C1: the list returned by a generate call is never longer than count,
\* also when one provider response carries several inline images
C1_LengthAtMostCount == Returned => Len(images) <= req.count

\* C2: an image-to-image slot whose first Gemini call was rate limited has,
\* once the backoff is over, invoked Gemini exactly twice
C2_RateLimitRetriedOnce ==
  \A i \in Slots :
    (req.mode = "image" /\ slot[i].first = "ratelimit"
       /\ slot[i].pc \in {"openai", "done"}) => slot[i].gemini = 2

\* C3: no slot promise ever rejects, and when the slots have settled the
\* call returns, without throwing, exactly the buffers of each slot
C3_FailuresAbsorbed ==
  [][ /\ \A i \in 1..MaxCount : slot'[i].pc # "rejected"
      /\ (pc = "generate" /\ pc' # "generate") =>
            /\ pc' = "upload"
            /\ \A i \in Slots : BuffersOf(images', i) = slot[i].result
            /\ \A k \in 1..Len(images') : images'[k][1] \in Slots ]_vars

\* a call of two slots returned the buffers of slot 2 while slot 1, whose
\* provider calls failed, contributed nothing
C3_Witness ==
  /\ pc = "upload" /\ req.count = 2
  /\ {images[k][1] : k \in 1..Len(images)} = {2}

\* C4 as claimed: in both modes, once the first provider invocation of some
\* slot has resolved, every slot has issued its first invocation
C4_AllIssuedBeforeAnyResolves ==
  (Running /\ \E i \in Slots : slot[i].pc = "done" \/ slot[i].first # "none")
    => \A j \in Slots : Invocations(j) >= 1

\* C4 amended: while the call runs, every text-to-image slot has issued its
\* provider invocation; in image-to-image mode every slot has been started,
\* slot 1 has issued its invocation and only later slots wait for a delay
C4_FanOut ==
  Running =>
    \A j \in Slots :
      /\ slot[j].pc # "idle"
      /\ req.mode = "text" => slot[j].openai = 1
      /\ req.mode = "image" => (j = 1 => slot[j].gemini = 1)
      /\ slot[j].pc = "delay" => (req.mode = "image" /\ j > 1 /\ Invocations(j) = 0)

\* a text-to-image call of two slots in which slot 2 has resolved while
\* slot 1 is still in flight
C4_Witness ==
  /\ Running /\ req.mode = "text" /\ req.count = 2
  /\ slot[2].pc = "done" /\ slot[1].pc = "openai"

\* C5: with no provider credential at all the generate call throws the
\* configuration error before any slot starts and invokes no provider
C5_NoCredentialFailsFast ==
  (~env.gemini /\ ~env.openai) =>
    /\ \A i \in 1..MaxCount : slot[i] = IdleSlot
    /\ pc \notin {"generate", "upload", "finduser", "save"}
    /\ (pc = "done" /\ res.status = 500) => res.details = ConfigError

\* without any credential a request was answered with the configuration error
C5_Witness ==
  /\ ~env.gemini /\ ~env.openai
  /\ pc = "done" /\ res.status = 500 /\ res.details = ConfigError
  /\ \A i \in 1..MaxCount : Invocations(i) = 0

\* C6: when no provider the mode calls has a credential (text-to-image
\* calls OpenAI only, image-to-image calls Gemini and OpenAI) no slot starts
C6_ModeProvidersUnconfiguredFailsFast ==
  (\/ req.mode = "text" /\ ~env.openai
   \/ req.mode = "image" /\ ~env.gemini /\ ~env.openai)
    => /\ \A i \in 1..MaxCount : slot[i] = IdleSlot
       /\ (pc = "done" /\ res.status = 500) => res.details = ConfigError

\* C7 as claimed: the returned list is the slots' results concatenated in
\* the order in which the slots completed
C7_CompletionOrder ==
  Returned =>
    images = Flatten([i \in Slots |-> BuffersOf(images, i)], order)

\* C7 amended: the returned list is in slot-index order whatever the
\* completion order, and the buffers of one slot keep their response order
C7_IndexOrder ==
  Returned =>
    \A p, q \in 1..Len(images) :
      p < q => \/ images[p][1] < images[q][1]
               \/ images[p][1] = images[q][1] /\ images[p][2] < images[q][2]

\* slot 2 completed before slot 1 and both returned buffers
C7_Witness ==
  /\ pc = "upload" /\ req.count = 2 /\ order = <<2, 1>>
  /\ Len(BuffersOf(images, 1)) = 2 /\ Len(BuffersOf(images, 2)) >= 1

\* C8: in image-to-image mode the fallback is invoked at most once and only
\* after the primary failed; a failure other than a rate limit goes to the
\* fallback without a second primary call, a rate limit waits for the
\* backoff and then goes to the fallback, and no failure rejects the slot
C8_FallbackChain ==
  req.mode = "image" =>
    \A i \in Slots :
      /\ slot[i].openai <= 1
      /\ slot[i].openai = 1 => slot[i].first \in {"empty", "error", "ratelimit"}
      /\ slot[i].first \in {"empty", "error"} =>
           slot[i].gemini = 1 /\ slot[i].openai = 1 /\ slot[i].pc \in {"openai", "done"}
      /\ slot[i].first = "ratelimit" =>
           slot[i].gemini <= 2 /\ slot[i].pc \in {"backoff", "openai", "done"}
      /\ slot[i].pc = "backoff" => slot[i].first = "ratelimit" /\ slot[i].openai = 0
      /\ slot[i].first = "ok" => slot[i].openai = 0 /\ slot[i].pc = "done"
      /\ slot[i].pc # "rejected"

\* a rate limited slot went to the fallback, which failed too, and the slot
\* completed with no buffer
C8_Witness ==
  /\ Running /\ req.mode = "image"
  /\ \E i \in Slots : /\ slot[i].first = "ratelimit" /\ slot[i].pc = "done"
                      /\ slot[i].openai = 1 /\ slot[i].result = <<>>
  /\ \E i \in Slots : /\ slot[i].first = "error" /\ slot[i].pc = "done"
                      /\ Len(slot[i].result) > 0

\* the request carries no prompt text at all
NoPrompt == req.prompt = "" /\ req.fields = EmptyFields

\* C9: a request without any prompt is answered 400 "Prompt is required"
\* before the enhancer, a provider, the uploader or the history is used
C9_MissingPromptRejected ==
  (NoPrompt /\ (req.mode = "image" => req.hasFile)) =>
    /\ NothingStarted /\ calls.enhancer = 0
    /\ pc = "done" => res.status = 400 /\ res.error = "Prompt is required"

\* C10: an image-to-image request without a file is answered 400 before the
\* enhancer, a provider, the uploader or the history is used
C10_MissingFileRejected ==
  (req.mode = "image" /\ ~req.hasFile) =>
    /\ NothingStarted /\ calls.enhancer = 0
    /\ pc \in {"received", "done"}
    /\ pc = "done" => res.status = 400 /\ res.error = "Image file is required"

\* an image-to-image request without a file has been answered
C10_Witness ==
  /\ req.mode = "image" /\ ~req.hasFile /\ Truthy(req.prompt)
  /\ pc = "done" /\ res.status = 400 /\ history = InitialHistory

\* ================================================= functions on their own
\* the variables of the request handling, at rest while a function or a
\* method of the user document is applied on its own
handling == <<env, req, pc, finalPrompt, slot, order, images, imageUrls, calls,
              userDoc, res>>

AtRest ==
  /\ env = [gemini |-> TRUE, openai |-> TRUE]
  /\ req = [mode |-> "text", count |-> 1, hasFile |-> FALSE, prompt |-> "",
            fields |-> EmptyFields, enhancePrompt |-> FALSE]
  /\ pc = "idle"
  /\ finalPrompt = <<>>
  /\ slot = [i \in 1..MaxCount |-> IdleSlot]
  /\ order = <<>> /\ images = <<>> /\ imageUrls = <<>>
  /\ calls = [enhancer |-> 0, upload |-> 0, outcome |-> "none"]
  /\ userDoc = <<>>
  /\ res = [status |-> 0, error |-> "", details |-> "", images |-> <<>>]

\* the function named fn is applied to its input
Apply(fn, out) ==
  /\ probe.fn = fn /\ ~probe.done
  /\ probe' = [probe EXCEPT !.done = TRUE, !.out = out]
  /\ UNCHANGED <<handling, history>>

\* ------------------------------------------------------ image count clamp
\* longest imageCount string of the model
MaxRawLen == 2

\* imageCount arrives as a string, or as a JSON number that parseInt turns
\* into its decimal string; a string is a sequence of characters
RawChars == {"-", "0", "1", "2", "4", "7", "a"}

DigitVal ==
  [c \in {"0", "1", "2", "3", "4", "5", "6", "7", "8", "9"} |->
     CASE c = "0" -> 0 [] c = "1" -> 1 [] c = "2" -> 2 [] c = "3" -> 3
       [] c = "4" -> 4 [] c = "5" -> 5 [] c = "6" -> 6 [] c = "7" -> 7
       [] c = "8" -> 8 [] c = "9" -> 9]

\* imageCount is absent from the body
Absent == <<"undefined">>

RawCounts == SeqsUpTo(RawChars, MaxRawLen) \cup {Absent, <<"a", "b", "c">>}

NaN == [nan |-> TRUE, val |-> 0]

RECURSIVE DigitPrefix(_)
\* the longest prefix of s made of decimal digits
DigitPrefix(s) ==
  IF Len(s) = 0 \/ Head(s) \notin DOMAIN DigitVal THEN <<>>
  ELSE <<Head(s)>> \o DigitPrefix(Tail(s))

RECURSIVE DecimalValue(_)
DecimalValue(ds) ==
  IF Len(ds) = 0 THEN 0
  ELSE 10 * DecimalValue(SubSeq(ds, 1, Len(ds) - 1)) + DigitVal[ds[Len(ds)]]

\* parseInt: an optional sign, then the leading digits; NaN without a digit
ParseInt(s) ==
  LET signed == Len(s) > 0 /\ Head(s) \in {"-", "+"}
      ds == DigitPrefix(IF signed THEN Tail(s) ELSE s)
  IN IF Len(ds) = 0 THEN NaN
     ELSE [nan |-> FALSE,
           val |-> IF Head(s) = "-" THEN 0 - DecimalValue(ds) ELSE DecimalValue(ds)]

\* `n || d`: NaN and 0 are falsy
OrDefault(n, d) == IF n.nan \/ n.val = 0 THEN d ELSE n.val

Min2(a, b) == IF a < b THEN a ELSE b
Max2(a, b) == IF a > b THEN a ELSE b

\* Math.max(1, Math.min(4, parseInt(imageCount) || 4)), imageCount = "4"
\* when the body has none
imageCountInt(raw) ==
  LET imageCount == IF raw = Absent THEN <<"4">> ELSE raw
  IN Max2(1, Min2(4, OrDefault(ParseInt(imageCount), 4)))

ApplyClamp == Apply("clamp", imageCountInt(probe.in))

InitClamp ==
  /\ AtRest /\ history = <<>>
  /\ probe \in [fn : {"clamp"}, in : RawCounts, done : {FALSE}, out : {0}]

NextClamp == ApplyClamp

SpecClamp == InitClamp /\ [][NextClamp]_vars

\* C11: the image count is parsed, defaults to 4 when unparseable and is
\* clamped to 1..4: 0, -1, "abc", 7, 4, 2 give 1, 1, 4, 4, 4, 2 and every
\* input gives a value in 1..4
C11_ClampTable ==
  (probe.fn = "clamp" /\ probe.done) =>
    /\ probe.out \in 1..4
    /\ probe.in = <<"0">> => probe.out = 1
    /\ probe.in = <<"-", "1">> => probe.out = 1
    /\ probe.in = <<"a", "b", "c">> => probe.out = 4
    /\ probe.in = <<"7">> => probe.out = 4
    /\ probe.in = <<"4">> => probe.out = 4
    /\ probe.in = <<"2">> => probe.out = 2

\* -------------------------------------------------------- prompt composer
\* the bodies the composer is applied to: every field empty or set, and
\* includeText absent, "Yes", "No" or a JSON boolean
ComposerFields ==
  [category : {"", "gaming"}, mood : {"", "happy"}, theme : {"", "neon"},
   primaryColor : {"", "red"},
   includeText : {"undefined", "Yes", "No", "true", "false"},
   textStyle : {"", "outlined"}, thumbnailStyle : {"", "bold"},
   customPrompt : {"", "a cat"}]

ApplyCompose ==
  Apply("compose", generateEnhancedPrompt(probe.in.fields, probe.in.isImageToImage))

InitCompose ==
  /\ AtRest /\ history = <<>>
  /\ probe \in [fn : {"compose"},
                in : [fields : ComposerFields, isImageToImage : BOOLEAN],
                done : {FALSE}, out : {<<>>}]

NextCompose == ApplyCompose

SpecCompose == InitCompose /\ [][NextCompose]_vars

Composed == probe.fn = "compose" /\ probe.done

\* the positions of out at which the token sequence c starts
Starts(out, c) ==
  {k \in 1..Len(out) : k + Len(c) - 1 <= Len(out) /\ SubSeq(out, k, k + Len(c) - 1) = c}

Occurs(out, tok) == \E k \in 1..Len(out) : out[k] = tok

AllFieldsEmpty(f) ==
  /\ ~Truthy(f.category) /\ ~Truthy(f.mood) /\ ~Truthy(f.theme)
  /\ ~Truthy(f.primaryColor) /\ ~Truthy(f.includeText) /\ ~Truthy(f.textStyle)
  /\ ~Truthy(f.thumbnailStyle) /\ ~Truthy(f.customPrompt)

\* C12: with every field empty and no custom prompt the text-to-image
\* prompt is exactly the quality suffix, without a leading separator
C12_EmptyIsBareSuffix ==
  (Composed /\ AllFieldsEmpty(probe.in.fields) /\ ~probe.in.isImageToImage) =>
    probe.out = <<"high quality, professional, eye-catching, clean composition">>

\* the clause each field must give, in the fixed order, <<>> for a field
\* that gives none
ExpectedClauses(f) ==
  << IF f.category # "" THEN <<f.category, " style">> ELSE <<>>,
     IF f.thumbnailStyle # "" THEN <<f.thumbnailStyle, " thumbnail">> ELSE <<>>,
     IF f.theme # "" THEN <<"with ", f.theme, " theme">> ELSE <<>>,
     IF f.mood # "" THEN <<f.mood, " mood">> ELSE <<>>,
     IF f.primaryColor # "" THEN <<"dominant ", f.primaryColor, " color palette">> ELSE <<>>,
     IF f.includeText \in {"Yes", "No", "true"} /\ f.textStyle # ""
       THEN <<"featuring ", f.textStyle, " text overlay">>
     ELSE IF f.includeText \in {"Yes", "No", "true"} THEN <<"with text overlay">>
     ELSE <<>> >>

\* the tokens by which the clause of each position is recognised
ClauseMarkers ==
  << {" style"}, {" thumbnail"}, {" theme"}, {" mood"}, {" color palette"},
     {" text overlay", "with text overlay"} >>

\* C13: every non-empty field gives its clause exactly once, an empty field
\* gives none, the clauses come in the order category, thumbnailStyle,
\* theme, mood, primaryColor, text overlay, after the custom prompt, and
\* the text-overlay clause follows includeText and textStyle
C13_ClauseOrder ==
  Composed =>
    LET f == probe.in.fields
        out == probe.out
        exp == ExpectedClauses(f)
    IN /\ \A j \in 1..6 :
            /\ Cardinality({k \in 1..Len(out) : out[k] \in ClauseMarkers[j]})
                 = (IF exp[j] = <<>> THEN 0 ELSE 1)
            /\ exp[j] # <<>> => Cardinality(Starts(out, exp[j])) = 1
       /\ \A i, j \in 1..6 :
            (i < j /\ exp[i] # <<>> /\ exp[j] # <<>>) =>
               \A a \in Starts(out, exp[i]), b \in Starts(out, exp[j]) : a < b
       /\ f.customPrompt # "" =>
            /\ out[1] = f.customPrompt
            /\ \A j \in 1..6 : \A a \in Starts(out, exp[j]) : exp[j] # <<>> => a > 1

\* every field and the custom prompt are given, with a text style
C13_Witness ==
  /\ Composed /\ ~probe.in.isImageToImage
  /\ probe.in.fields = [category |-> "gaming", mood |-> "happy", theme |-> "neon",
                        primaryColor |-> "red", includeText |-> "Yes",
                        textStyle |-> "outlined", thumbnailStyle |-> "bold",
                        customPrompt |-> "a cat"]
  /\ probe.out[1] = "a cat" /\ Len(probe.out) = 24

\* the end of every image-to-image prompt
PreservingEnd ==
  << "maintaining key visual elements from the reference image", ", ",
     "preserving the original composition and subject matter", ", ",
     "enhancing while keeping recognizable features", ", ",
     "high quality, professional, eye-catching, clean composition" >>

\* C14: the three preservation clauses stand after all field clauses and
\* before the quality suffix in image-to-image mode and never appear in
\* text-to-image mode; the prompt is never empty and ends with the suffix
C14_PreservationAndSuffix ==
  Composed =>
    LET out == probe.out
        n == Len(out)
    IN /\ n >= 2
       /\ SubSeq(out, n - 1, n)
            = <<", ", "high quality, professional, eye-catching, clean composition">>
       /\ probe.in.isImageToImage =>
            /\ n >= 7 /\ SubSeq(out, n - 6, n) = PreservingEnd
            /\ \A k \in 1..(n - 7) : out[k] \notin {PreservingEnd[1], PreservingEnd[3],
                                                   PreservingEnd[5]}
            /\ n > 7 => out[n - 7] = ", "
       /\ ~probe.in.isImageToImage =>
            \A k \in 1..n : out[k] \notin {PreservingEnd[1], PreservingEnd[3],
                                           PreservingEnd[5]}

\* an image-to-image prompt with field clauses before the preservation clauses
C14_Witness ==
  /\ Composed /\ probe.in.isImageToImage
  /\ probe.in.fields.category = "gaming" /\ probe.in.fields.customPrompt = "a cat"
  /\ Len(probe.out) > 7

\* --------------------------------------------------------- MIME detection
\* longest reference buffer of the model
MaxBufLen == 4

\* the bytes of the four signatures, and one byte of none
MimeBytes == {255, 216, 137, 80, 78, 71, 73, 70, 82, 0}

Buffers == SeqsUpTo(MimeBytes, MaxBufLen)

\* Object.entries(signatures), in insertion order
Signatures ==
  << [mimeType |-> "image/jpeg", signature |-> <<255, 216, 255>>],
     [mimeType |-> "image/png", signature |-> <<137, 80, 78, 71>>],
     [mimeType |-> "image/gif", signature |-> <<71, 73, 70>>],
     [mimeType |-> "image/webp", signature |-> <<82, 73, 70, 70>>] >>

\* variant: only the bytes the buffer has are compared
SignatureMatchesAvailable(buffer, signature) ==
  \A index \in 1..Len(signature) :
    index <= Len(buffer) => buffer[index] = signature[index]

\* signature.every(...): buffer[index] is undefined past the end of the buffer
SignatureMatches(buffer, signature) ==
  \A index \in 1..Len(signature) :
    index <= Len(buffer) /\ buffer[index] = signature[index]

RECURSIVE FirstMatch(_, _)
\* the loop over the signatures, with the default after it
FirstMatch(buffer, sigs) ==
  IF Len(sigs) = 0 THEN "image/jpeg"
  ELSE IF SignatureMatches(buffer, Head(sigs).signature) THEN Head(sigs).mimeType
  ELSE FirstMatch(buffer, Tail(sigs))

detectMimeType(buffer) == FirstMatch(buffer, Signatures)

ApplyDetect == Apply("detectMimeType", detectMimeType(probe.in))

InitMime ==
  /\ AtRest /\ history = <<>>
  /\ probe \in [fn : {"detectMimeType"}, in : Buffers, done : {FALSE}, out : {""}]

NextMime == ApplyDetect

SpecMime == InitMime /\ [][NextMime]_vars

HasPrefix(b, p) == Len(b) >= Len(p) /\ SubSeq(b, 1, Len(p)) = p

\* C15: the result is the first of JPEG (FF D8 FF), PNG (89 50 4E 47),
\* GIF (47 49 46), WEBP (52 49 46 46) whose signature starts the buffer, and
\* image/jpeg for an empty, too short or unrecognised buffer
C15_MimeDetection ==
  (probe.fn = "detectMimeType" /\ probe.done) =>
    /\ probe.out = (IF HasPrefix(probe.in, <<255, 216, 255>>) THEN "image/jpeg"
                    ELSE IF HasPrefix(probe.in, <<137, 80, 78, 71>>) THEN "image/png"
                    ELSE IF HasPrefix(probe.in, <<71, 73, 70>>) THEN "image/gif"
                    ELSE IF HasPrefix(probe.in, <<82, 73, 70, 70>>) THEN "image/webp"
                    ELSE "image/jpeg")
    /\ Len(probe.in) < 3 => probe.out = "image/jpeg"

\* a PNG header was detected
C15_Witness ==
  /\ probe.fn = "detectMimeType" /\ probe.done
  /\ probe.in = <<137, 80, 78, 71>> /\ probe.out = "image/png"

\* ------------------------------------- properties of the request handling
\* the prompt the composer gives for the request
ComposedPrompt == generateEnhancedPrompt(req.fields, req.mode = "image")

C17_AllFailedIsSuccess ==
  (pc = "done" /\ Len(order) = req.count) =>
    /\ res.status \in {200, 500}
    /\ res.status = 500 => res.details \in {"upload failed", "database error"}
    /\ images = <<>> =>
         /\ calls.upload = 0
         /\ res.status = 500 => res.details = "database error"
         /\ res.status = 200 => res.images = <<>>

\* both slots failed and the request was answered 200 with no image, its
\* record written
C17_Witness ==
  /\ pc = "done" /\ req.count = 2 /\ Len(order) = 2 /\ images = <<>>
  /\ res.status = 200 /\ res.images = <<>>
  /\ Len(history) = 2 /\ history[1].imagesGenerated = 0

\* C18: in image-to-image mode every slot but the first waits for its delay
\* before its first Gemini call and the first does not; in text-to-image
\* mode no slot waits before its provider call
C18_DelayBeforePrimary ==
  [][ \A i \in 1..MaxCount :
        /\ (slot[i].gemini = 0 /\ slot'[i].gemini = 1) =>
              slot[i].pc = (IF i = 1 THEN "idle" ELSE "delay")
        /\ slot'[i].pc = "delay" => (req.mode = "image" /\ i > 1)
        /\ (req.mode = "image" /\ i > 1 /\ slot[i].pc = "idle" /\ slot'[i].pc # "idle")
              => slot'[i].pc = "delay"
        /\ (req.mode = "text" /\ slot[i].openai = 0 /\ slot'[i].openai = 1)
              => slot[i].pc = "idle" ]_vars

\* slot 2 of an image-to-image call has waited and issued its Gemini call
\* after slot 1 completed
C18_Witness ==
  /\ Running /\ req.mode = "image" /\ req.count = 2
  /\ slot[1].pc = "done" /\ slot[2].pc = "gemini" /\ slot[2].gemini = 1

\* ------------------------------------- response collectors on their own
MaxChunks == 2

\* a streamed response: its chunks in arrival order, each the parts of
\* candidates[0].content; a chunk without candidates, content or parts is
\* skipped and collects like one with no part
GeminiStreams == SeqsUpTo(GeminiResponses, MaxChunks)

\* a part whose inlineData is set
ImageBearing == {"image", "both"}

\* the retry block's loop: every part with inlineData is decoded
CollectGeminiRetry(i, parts) == CollectFrom(i, parts, ImageBearing)

\* the streaming loop: of each chunk only parts[0] is looked at, and decoded
\* when its inlineData is set; the buffer <<c, 1>> comes from chunk c
CollectStream(chunks) ==
  LET n == Len(chunks)
      perChunk == [c \in 1..n |->
                     IF Len(chunks[c]) > 0 /\ chunks[c][1] \in ImageBearing
                       THEN << <<c, 1>> >> ELSE <<>>]
  IN Flatten(perChunk, [c \in 1..n |-> c])

ApplyCollectSingle == Apply("single", CollectGemini(1, probe.in))
ApplyCollectRetry == Apply("retry", CollectGeminiRetry(1, probe.in))
ApplyCollectStream == Apply("stream", CollectStream(probe.in))
ApplyCollectOpenAI == Apply("openai", CollectOpenAI(1, probe.in))

InitNormalize ==
  /\ AtRest /\ history = <<>>
  /\ \/ probe \in [fn : {"single", "retry"}, in : GeminiResponses,
                   done : {FALSE}, out : {<<>>}]
     \/ probe \in [fn : {"stream"}, in : GeminiStreams,
                   done : {FALSE}, out : {<<>>}]
     \/ probe \in [fn : {"openai"}, in : OpenAIResponses,
                   done : {FALSE}, out : {<<>>}]

NextNormalize ==
  \/ ApplyCollectSingle
  \/ ApplyCollectRetry
  \/ ApplyCollectStream
  \/ ApplyCollectOpenAI

SpecNormalize == InitNormalize /\ [][NextNormalize]_vars

\* every image-bearing payload of a response, in arrival order: <<1, k>> for
\* part or item k of a single response, <<c, k>> for part k of chunk c
ImagePayloads(fn, in) ==
  IF fn = "stream"
    THEN Flatten([c \in 1..Len(in) |-> CollectFrom(c, in[c], ImageBearing)],
                 [c \in 1..Len(in) |-> c])
  ELSE IF fn = "openai" THEN CollectFrom(1, in, {"b64"})
  ELSE CollectFrom(1, in, ImageBearing)

\* C19: the buffer list of a response, streamed or single, holds one buffer
\* for every image-bearing payload, in arrival order, whatever the payload's
\* position among the parts and whether or not text accompanies it
C19_EveryPayloadCollected ==
  (probe.fn \in {"single", "retry", "stream", "openai"} /\ probe.done) =>
    probe.out = ImagePayloads(probe.fn, probe.in)

\* ------------------------------------------- the history log on its own
MaxOps == 3

\* variant: the newest entry is removed whatever the id
deleteHistoryEntryNewest(h, historyId) ==
  IF Len(h) > 0 THEN Tail(h) ELSE h

\* filter: the entries whose _id differs from historyId, in their order
deleteHistoryEntry(h, historyId) ==
  SelectSeq(h, LAMBDA entry : entry._id # historyId)

clearHistory(h) == <<>>

\* the log after n entries were added to a new user: _id n at the head down
\* to _id 1; ids are given in creation order
Descending(n) == [k \in 1..n |-> [_id |-> n - k + 1]]

\* lengths of the log the operations start from, the cap and its
\* neighbourhood among them
InitialLengths == {0, 2, HistoryCap - 1, HistoryCap}

\* ids a delete request can name: the newest entries, the oldest and none
DeleteTargets(h) ==
  {0} \cup {h[k]._id : k \in {j \in {1, 2, Len(h)} : j >= 1 /\ j <= Len(h)}}

\* the document is saved, or the save fails and the stored log stays
Saved(h, ok) == history' = IF ok THEN h ELSE history

OpDone(nextId) ==
  /\ probe.fn = "history" /\ probe.ops < MaxOps
  /\ probe' = [probe EXCEPT !.ops = @ + 1, !.next = nextId]
  /\ UNCHANGED handling

HistoryAdd(ok) ==
  /\ OpDone(probe.next + 1)
  /\ Saved(addToHistory(history, [_id |-> probe.next]), ok)

\* without a matching entry nothing is saved
HistoryDelete(historyId, ok) ==
  /\ OpDone(probe.next)
  /\ LET h == deleteHistoryEntry(history, historyId)
     IN IF Len(h) < Len(history) THEN Saved(h, ok) ELSE UNCHANGED history

HistoryClear(ok) ==
  /\ OpDone(probe.next)
  /\ Saved(clearHistory(history), ok)

InitHistory ==
  /\ AtRest
  /\ \E n \in InitialLengths :
       /\ history = Descending(n)
       /\ probe = [fn |-> "history", next |-> n + 1, ops |-> 0]

NextHistory ==
  \/ \E ok \in BOOLEAN : HistoryAdd(ok)
  \/ \E ok \in BOOLEAN : \E historyId \in DeleteTargets(history) :
       HistoryDelete(historyId, ok)
  \/ \E ok \in BOOLEAN : HistoryClear(ok)

SpecHistory == InitHistory /\ [][NextHistory]_vars

\* at most 100 entries, a newer entry before every older one
CappedNewestFirst(h) ==
  /\ Len(h) <= HistoryCap
  /\ \A j, k \in 1..Len(h) : j < k => h[j]._id > h[k]._id

\* C20: after any sequence of adds, deletes and clears the log holds at most
\* 100 entries, most recent first; an add saved to a full log puts the new
\* entry at the head and drops exactly the oldest entry
C20_CappedMostRecentFirst ==
  /\ [](probe.fn = "history" => CappedNewestFirst(history))
  /\ [][ (probe.fn = "history" /\ probe'.next = probe.next + 1
           /\ history' # history /\ Len(history) = HistoryCap) =>
             history' = <<[_id |-> probe.next]>>
                          \o SubSeq(history, 1, HistoryCap - 1) ]_vars

\* an entry was added to a full log: the newest is at the head and the
\* entry with _id 1 is gone
C20_Witness ==
  /\ probe.fn = "history" /\ Len(history) = HistoryCap
  /\ history[1]._id = HistoryCap + 1
  /\ history[HistoryCap]._id = 2

\* --------------------------------------------- properties of the records
\* exactly one record was put before the earlier entries, its image count
\* that of the response
OneRecordWritten ==
  /\ Len(history) = Len(InitialHistory) + 1
  /\ Tail(history) = InitialHistory
  /\ history[1].imagesGenerated = Len(res.images)
  /\ history[1].imageUrls = res.images

\* findById gave the user's document
UserFound == userDoc # <<>>

\* C21 as stated: every request answered 200 has written exactly one record
\* by then, with imagesGenerated the number of urls answered, and any other
\* request none
C21_SuccessWritesOneRecord ==
  IF res.status = 200 THEN OneRecordWritten ELSE history = InitialHistory

\* C21 amended: a request answered 200 whose user document was found has
\* written exactly one record by then, with imagesGenerated the number of
\* urls answered; a 200 without a user document and every error write none
C21_SuccessOfFoundUserWritesOneRecord ==
  IF res.status = 200 /\ UserFound THEN OneRecordWritten
  ELSE history = InitialHistory

\* a success with two urls and its record
C21_Witness ==
  /\ pc = "done" /\ res.status = 200 /\ UserFound
  /\ Len(res.images) = 2 /\ OneRecordWritten

\* ---------------------------------------------- the uploads on their own
MaxUploads == 3

\* the buffer lists handed to uploadMultiple
UploadBatches == {[k \in 1..n |-> <<1, k>>] : n \in 0..MaxUploads}

\* the handler has the orchestrator's buffers and is about to upload them
InitUpload ==
  /\ env = [gemini |-> TRUE, openai |-> TRUE]
  /\ req = [mode |-> "text", count |-> 1, hasFile |-> FALSE, prompt |-> "a dog",
            fields |-> EmptyFields, enhancePrompt |-> FALSE]
  /\ pc = "uploadMultiple"
  /\ finalPrompt = generateEnhancedPrompt(req.fields, FALSE)
  /\ slot = [i \in 1..MaxCount |-> IdleSlot]
  /\ order = <<1>>
  /\ images \in UploadBatches
  /\ imageUrls = <<>>
  /\ calls = [enhancer |-> 0, upload |-> 0, outcome |-> "none"]
  /\ userDoc = <<>>
  /\ res = [status |-> 0, error |-> "", details |-> "", images |-> <<>>]
  /\ history = InitialHistory
  /\ probe = [fn |-> "upload", up |-> [k \in 1..Len(images) |-> "unstarted"],
              settled |-> <<>>]

\* variant: every upload is waited for and the urls of those that
\* succeeded are returned
AwaitUploadsSettled(up) ==
  IF \A k \in DOMAIN up : up[k] \in {"ok", "failed"}
    THEN /\ imageUrls' = LET done == SelectSeq([k \in 1..Len(images) |-> k],
                                               LAMBDA k : up[k] = "ok")
                         IN [j \in 1..Len(done) |-> UrlOf(images[done[j]])]
         /\ pc' = "finduser"
         /\ UNCHANGED res
  ELSE /\ pc' = "upload"
       /\ UNCHANGED <<imageUrls, res>>

\* Promise.all over the upload promises, seen by the awaiting handler: it
\* rejects with the first failure, and resolves to the urls in the order of
\* the promise array once every upload succeeded
AwaitUploads(up) ==
  IF \E k \in DOMAIN up : up[k] = "failed"
    THEN /\ Respond500("upload failed")
         /\ UNCHANGED imageUrls
  ELSE IF \A k \in DOMAIN up : up[k] = "ok"
    THEN /\ imageUrls' = [k \in 1..Len(images) |-> UrlOf(images[k])]
         /\ pc' = "finduser"
         /\ UNCHANGED res
  ELSE /\ pc' = "upload"
       /\ UNCHANGED <<imageUrls, res>>

\* uploadMultiple maps uploadBuffer over the buffers: every upload stream
\* is started in the same synchronous run, then Promise.all is awaited
UploadMultipleStarts ==
  /\ probe.fn = "upload" /\ pc = "uploadMultiple"
  /\ probe' = [probe EXCEPT !.up = [k \in 1..Len(images) |-> "pending"]]
  /\ calls' = uploadMultiple(images)
  /\ AwaitUploads(probe'.up)
  /\ UNCHANGED <<env, req, finalPrompt, slot, order, images, userDoc, history>>

\* the callback of upload_stream for buffer k: the promise resolves to the
\* secure_url or rejects; a handler that already answered is not affected
UploadBufferSettles(k, ok) ==
  /\ probe.fn = "upload" /\ k \in DOMAIN probe.up /\ probe.up[k] = "pending"
  /\ probe' = [probe EXCEPT !.up[k] = IF ok THEN "ok" ELSE "failed",
                            !.settled = Append(@, k)]
  /\ IF pc = "upload" THEN AwaitUploads(probe'.up)
     ELSE UNCHANGED <<pc, imageUrls, res>>
  /\ UNCHANGED <<env, req, finalPrompt, slot, order, images, calls, userDoc, history>>

NextUpload ==
  \/ UploadMultipleStarts
  \/ \E k \in 1..MaxUploads, ok \in BOOLEAN : UploadBufferSettles(k, ok)
  \/ \E o \in {"found", "missing", "error"} : FindUserSettles(o)
  \/ \E ok \in BOOLEAN : SaveSettles(ok)

SpecUpload == InitUpload /\ [][NextUpload]_vars

UploadOf(k) == probe.up[k]

\* C22: one upload per buffer, all started before any settles or is
\* awaited, the urls answered in buffer order; with a failed upload the
\* request is answered 500 without url and without history record
C22_UploadAllOrNothing ==
  probe.fn = "upload" =>
    /\ pc # "uploadMultiple" =>
         /\ calls.upload = Len(images)
         /\ \A k \in 1..Len(images) : UploadOf(k) # "unstarted"
    /\ pc = "uploadMultiple" =>
         /\ calls.upload = 0
         /\ \A k \in 1..Len(images) : UploadOf(k) = "unstarted"
    /\ res.status = 200 =>
         /\ \A k \in 1..Len(images) : UploadOf(k) = "ok"
         /\ res.images = [k \in 1..Len(images) |-> UrlOf(images[k])]
    /\ (\E k \in 1..Len(images) : UploadOf(k) = "failed") =>
         /\ pc = "done" /\ res.status = 500 /\ res.images = <<>>
         /\ history = InitialHistory

\* three uploads settled in another order than they were started, the urls
\* answered in buffer order
C22_Witness ==
  /\ probe.fn = "upload" /\ pc = "done" /\ res.status = 200
  /\ Len(images) = 3 /\ probe.settled = <<3, 1, 2>>
  /\ res.images = <<UrlOf(images[1]), UrlOf(images[2]), UrlOf(images[3])>>

\* ------------------------------------------- the paginated read on its own
MaxLog == 4
MaxPage == 5

\* the limit the handler uses when the query has none
DefaultLimit == 20

\* Array.prototype.slice(start, end) on a list, positions counted from 0: a
\* negative index counts from the end, both are clamped to the list
Slice(s, start, end) ==
  LET n == Len(s)
      from == IF start < 0 THEN Max2(n + start, 0) ELSE Min2(start, n)
      to == IF end < 0 THEN Max2(n + end, 0) ELSE Min2(end, n)
  IN IF from >= to THEN <<>> ELSE SubSeq(s, from + 1, to)

\* variant: hasMore also when the page ends exactly at the end of the log
getHistoryInclusive(h, limit, offset) ==
  [history |-> Slice(h, offset, offset + limit),
   total |-> Len(h),
   hasMore |-> offset + limit <= Len(h)]

getHistory(h, limit, offset) ==
  [history |-> Slice(h, offset, offset + limit),
   total |-> Len(h),
   hasMore |-> offset + limit < Len(h)]

ApplyGetHistory ==
  Apply("getHistory", getHistory(history, probe.in.limit, probe.in.offset))

\* page requests on logs of every length up to MaxLog
InitPage ==
  /\ AtRest
  /\ \E n \in 0..MaxLog, limit \in (0..MaxPage) \cup {DefaultLimit},
        offset \in 0..MaxPage :
       /\ history = Descending(n)
       /\ probe = [fn |-> "getHistory", done |-> FALSE, out |-> <<>>,
                   in |-> [limit |-> limit, offset |-> offset, log |-> history]]

NextPage == ApplyGetHistory

SpecPage == InitPage /\ [][NextPage]_vars

\* the positions, counted from 0, of the log that a page covers
PagePositions(in) ==
  {q \in 0..(Len(in.log) - 1) : q >= in.offset /\ q <= in.offset + in.limit - 1}

InitHistoryRequest ==
  /\ env = [gemini |-> TRUE, openai |-> TRUE]
  /\ req = [mode |-> "text", count |-> 1, hasFile |-> FALSE, prompt |-> "",
            fields |-> EmptyFields, enhancePrompt |-> FALSE]
  /\ pc = "historyFind"
  /\ finalPrompt = <<>>
  /\ slot = [i \in 1..MaxCount |-> IdleSlot]
  /\ order = <<>> /\ images = <<>> /\ imageUrls = <<>>
  /\ calls = [enhancer |-> 0, upload |-> 0, outcome |-> "none"]
  /\ userDoc = <<>>
  /\ res = [status |-> 0, error |-> "", details |-> "", images |-> <<>>]
  /\ \E n \in 0..MaxLog : history = Descending(n)
  /\ \/ \E historyId \in 0..MaxLog :
          probe = [fn |-> "deleteHistoryEntry", historyId |-> historyId,
                   log |-> history, saves |-> 0]
     \/ probe = [fn |-> "clearHistory", historyId |-> 0, log |-> history,
                 saves |-> 0]

HistoryUnchanged ==
  UNCHANGED <<env, req, finalPrompt, slot, order, images, imageUrls, calls,
              history>>

\* the catch block of the history handlers
HistoryRespond500 ==
  Respond(500, IF probe.fn = "clearHistory" THEN "Failed to clear history"
               ELSE "Failed to delete history entry", "database error", <<>>)

\* the document is changed in memory and save() is called
HistorySave(h) ==
  /\ userDoc' = h
  /\ probe' = [probe EXCEPT !.saves = @ + 1]
  /\ pc' = "historySave"
  /\ UNCHANGED res

\* deleteHistoryEntry handler: User.findById settles; without a user 404,
\* otherwise the entry is filtered out and the document saved, or, when no
\* entry went, nothing is saved and the handler answers 404
DeleteFindUserSettles(outcome) ==
  /\ probe.fn = "deleteHistoryEntry" /\ pc = "historyFind"
  /\ IF outcome = "found"
       THEN LET h == deleteHistoryEntry(history, probe.historyId)
            IN IF Len(h) < Len(history) THEN HistorySave(h)
               ELSE /\ Respond(404, "History entry not found", "", <<>>)
                    /\ UNCHANGED <<userDoc, probe>>
     ELSE IF outcome = "missing"
       THEN /\ Respond(404, "User not found", "", <<>>)
            /\ UNCHANGED <<userDoc, probe>>
     ELSE /\ HistoryRespond500
          /\ UNCHANGED <<userDoc, probe>>
  /\ HistoryUnchanged

\* clearHistory handler: User.findById settles
ClearFindUserSettles(outcome) ==
  /\ probe.fn = "clearHistory" /\ pc = "historyFind"
  /\ IF outcome = "found" THEN HistorySave(clearHistory(history))
     ELSE IF outcome = "missing"
       THEN /\ Respond(404, "User not found", "", <<>>)
            /\ UNCHANGED <<userDoc, probe>>
     ELSE /\ HistoryRespond500
          /\ UNCHANGED <<userDoc, probe>>
  /\ HistoryUnchanged

\* save() settles: the stored log is the document's, or the save failed
HistorySaveSettles(ok) ==
  /\ pc = "historySave"
  /\ IF ok
       THEN /\ history' = userDoc
            /\ Respond(200, "", "", <<>>)
       ELSE /\ HistoryRespond500
            /\ UNCHANGED history
  /\ UNCHANGED <<probe, env, req, finalPrompt, slot, order, images, imageUrls,
                 calls, userDoc>>

NextHistoryRequest ==
  \/ \E o \in {"found", "missing", "error"} : DeleteFindUserSettles(o)
  \/ \E o \in {"found", "missing", "error"} : ClearFindUserSettles(o)
  \/ \E ok \in BOOLEAN : HistorySaveSettles(ok)

SpecHistoryRequest == InitHistoryRequest /\ [][NextHistoryRequest]_vars

\* the log has an entry with the id the request names
EntryExists == \E q \in 1..Len(probe.log) : probe.log[q]._id = probe.historyId

\* C24: a delete answered 200 has removed exactly the entry of that id and
\* left the others in their order; without such an entry nothing is saved,
\* the answer is 404 (500 if the lookup failed) and the stored log is
\* unchanged; a clear answered 200 leaves the log empty
C24_DeleteAndClear ==
  /\ probe.fn = "deleteHistoryEntry" =>
       /\ res.status # 200 => history = probe.log
       /\ res.status = 200 =>
            \E q \in 1..Len(probe.log) :
              /\ probe.log[q]._id = probe.historyId
              /\ history = SubSeq(probe.log, 1, q - 1)
                             \o SubSeq(probe.log, q + 1, Len(probe.log))
       /\ ~EntryExists =>
            /\ probe.saves = 0 /\ history = probe.log
            /\ pc = "done" => res.status \in {404, 500}
            /\ (pc = "done" /\ res.status = 500) => res.details = "database error"
  /\ probe.fn = "clearHistory" =>
       /\ res.status # 200 => history = probe.log
       /\ res.status = 200 => history = <<>>

\* the middle entry of a log of three was deleted
C24_Witness ==
  /\ probe.fn = "deleteHistoryEntry" /\ res.status = 200
  /\ Len(probe.log) = 3 /\ probe.historyId = 2
  /\ history = <<[_id |-> 3], [_id |-> 1]>>

\* ------------------------------------------------------------ termination
\* a provider call or a timer of slot i settles; what a slot does next
\* depends on a response only through whether it holds an image, so the
\* responses here have at most one part
SlotSettles(i) ==
  \/ DelayElapsed(i)
  \/ \E parts \in SeqsUpTo(GeminiPartKinds, 1) : GeminiReturns(i, parts)
  \/ \E st \in {RateLimitStatus, 500} : GeminiThrows(i, st)
  \/ BackoffElapsed(i)
  \/ \E data \in SeqsUpTo(OpenAIItemKinds, 1) : OpenAIReturns(i, data)
  \/ OpenAIThrows(i)

\* generation requests with a prompt and, in image mode, a file, of every
\* image count
InitLive ==
  /\ Init
  /\ req.prompt = "a dog" /\ req.fields = EmptyFields /\ ~req.enhancePrompt
  /\ req.hasFile = (req.mode = "image")

\* a request from its arrival to the return of its generate call
NextLive ==
  \/ generateImages
  \/ generateFromImage
  \/ \E i \in 1..MaxCount : SlotSettles(i)
  \/ SlotsSettle

\* every provider call and timer that was started settles, and the
\* continuation of a settled Promise.all runs
SpecLive ==
  /\ InitLive /\ [][NextLive]_vars
  /\ \A i \in 1..MaxCount : WF_vars(SlotSettles(i))
  /\ WF_vars(SlotsSettle)

\* C25: a generate call whose provider calls and timers all settle ends; a
\* text-to-image slot calls its provider once, an image-to-image slot calls
\* the primary at most twice and the fallback at most once
C25_TerminatesBounded ==
  /\ [](\A i \in 1..MaxCount :
          /\ Invocations(i) <= 3
          /\ slot[i].openai <= 1
          /\ slot[i].gemini <= 2
          /\ req.mode = "text" => slot[i].gemini = 0
          /\ (Running /\ req.mode = "text" /\ i <= req.count) => slot[i].openai = 1)
  /\ Running ~> (pc \in {"upload", "done"})

\* both slots of an image-to-image call have ended, the first after a rate
\* limit, its backoff and the fallback
C25_Witness ==
  /\ Running /\ req.mode = "image" /\ req.count = 2
  /\ \A i \in 1..2 : slot[i].pc = "done"
  /\ slot[1].first = "ratelimit" /\ slot[1].gemini = 1 /\ slot[1].openai = 1

\* ------------------------------------------ properties of the final prompt
\* the request has text in `prompt` only
PromptOnly == req.prompt # "" /\ req.fields = EmptyFields /\ ~req.enhancePrompt

\* C26: the text of a request that has text in `prompt` only is part of the
\* prompt given to the provider and of the finalPrompt recorded
C26_PromptOnlyIsUsed ==
  PromptOnly =>
    /\ Running => \E k \in 1..Len(finalPrompt) : finalPrompt[k] = req.prompt
    /\ Len(history) > Len(InitialHistory) =>
         \E k \in 1..Len(history[1].finalPrompt) :
           history[1].finalPrompt[k] = req.prompt

\* the prompt has a text-overlay clause
HasOverlayClause(p) ==
  \E k \in 1..Len(p) : p[k] \in {"with text overlay", " text overlay"}

\* C27: the prompt composed for a body has a text-overlay clause exactly
\* when the includeText flag recorded for that body is true
C27_RecordedFlagAgreesWithPrompt ==
  (probe.fn = "compose" /\ probe.done) =>
    (HasOverlayClause(probe.out)
       <=> includeTextBoolean(probe.in.fields.includeText))

\* ------------------------------------------------------- authentication
MaxWords == 2

\* the users of the store, by _id
Users == {1, 2}

\* tokens: one signed for each user, one with a wrong signature, one expired
TokenOf(u) == IF u = 1 THEN "t1" ELSE "t2"

\* an Authorization header as the words between its spaces (what split(" ")
\* gives), or absent; a word can be empty
HeaderWords == {"Bearer", "bearer", "Basic", "t1", "t2", "forged", "expired", ""}
NoHeader == <<"undefined">>
Headers == {NoHeader} \cup (SeqsUpTo(HeaderWords, MaxWords) \ {<<>>})

\* authHeader.startsWith("Bearer "): the first word is Bearer and a space
\* follows it
StartsWithBearer(h) == h # NoHeader /\ Len(h) >= 2 /\ h[1] = "Bearer"

\* jwt.verify inside try/catch: the payload's id, or 0 for null
verifyToken(token) ==
  IF \E u \in Users : token = TokenOf(u)
    THEN CHOOSE u \in Users : token = TokenOf(u)
  ELSE 0

\* the routes behind requireAuth
Routes == {"generate", "generate-from-image", "getHistory",
           "deleteHistoryEntry", "clearHistory"}

\* every user's stored log before the request
StoredLogs == [u \in Users |-> IF u = 1 THEN Descending(2) ELSE <<[_id |-> 7]>>]

InitAuth ==
  /\ AtRest
  /\ history = StoredLogs
  /\ \E h \in Headers, r \in Routes :
       probe = [fn |-> "auth", header |-> h, route |-> r, stage |-> "requireAuth",
                user |-> 0, read |-> {}, providers |-> 0, uploads |-> 0,
                status |-> 0]

\* variant: any request with a Bearer header is let through as user 1
requireAuthUnverified(h) ==
  IF ~StartsWithBearer(h) THEN 0 ELSE 1

\* requireAuth: the id put in req.user, or 0 when the request is answered 401
requireAuth(h) ==
  IF ~StartsWithBearer(h) THEN 0 ELSE verifyToken(h[2])

RequireAuthRuns ==
  /\ probe.fn = "auth" /\ probe.stage = "requireAuth"
  /\ LET id == requireAuth(probe.header)
     IN probe' = IF id = 0
                   THEN [probe EXCEPT !.stage = "done", !.status = 401]
                   ELSE [probe EXCEPT !.stage = "handler", !.user = id]
  /\ UNCHANGED <<handling, history>>

\* a handler runs to its answer for the user of req.user.id
HandlerRuns(route, log, providers) ==
  /\ probe.fn = "auth" /\ probe.stage = "handler" /\ probe.route = route
  /\ probe' = [probe EXCEPT !.stage = "done", !.status = 200,
                            !.read = @ \cup {probe.user},
                            !.providers = providers, !.uploads = providers]
  /\ history' = [history EXCEPT ![probe.user] = log]
  /\ UNCHANGED handling

RunGenerate ==
  \E r \in {"generate", "generate-from-image"} :
    HandlerRuns(r, addToHistory(history[probe.user], [_id |-> 9]), 1)

RunGetHistory == HandlerRuns("getHistory", history[probe.user], 0)

RunDeleteHistoryEntry ==
  \E historyId \in {1, 7} :
    HandlerRuns("deleteHistoryEntry",
                deleteHistoryEntry(history[probe.user], historyId), 0)

RunClearHistory ==
  HandlerRuns("clearHistory", clearHistory(history[probe.user]), 0)

NextAuth ==
  \/ RequireAuthRuns
  \/ RunGenerate
  \/ RunGetHistory
  \/ RunDeleteHistoryEntry
  \/ RunClearHistory

SpecAuth == InitAuth /\ [][NextAuth]_vars

\* the header is `Bearer <token>` with a token signed for user u
BearerOf(h, u) == h # NoHeader /\ Len(h) >= 2 /\ h[1] = "Bearer" /\ h[2] = TokenOf(u)

\* C28: a handler runs only for a request with a verifying Bearer token;
\* any other request is answered 401 with no provider call, no upload and
\* no change of any log; a handler reads and changes only the log of the
\* token's user
C28_OnlyVerifiedRequestsRun ==
  probe.fn = "auth" =>
    /\ probe.stage = "handler" =>
         \E u \in Users : BearerOf(probe.header, u) /\ probe.user = u
    /\ (probe.stage = "done" /\ ~\E u \in Users : BearerOf(probe.header, u)) =>
         /\ probe.status = 401
         /\ probe.providers = 0 /\ probe.uploads = 0 /\ probe.read = {}
         /\ history = StoredLogs
    /\ \A u \in Users :
         BearerOf(probe.header, u) =>
           /\ probe.read \subseteq {u}
           /\ \A v \in Users \ {u} : history[v] = StoredLogs[v]
           /\ probe.status # 401

\* user 2 cleared their log and the log of user 1 is as before
C28_Witness ==
  /\ probe.fn = "auth" /\ probe.stage = "done" /\ probe.route = "clearHistory"
  /\ probe.header = <<"Bearer", "t2">> /\ probe.status = 200
  /\ history[2] = <<>> /\ history[1] = StoredLogs[1]

\* ------------------------------------- concurrent requests of one user
MaxRequests == 2

Concurrent == 1..MaxRequests

\* the _id of the record request r writes, newer than every stored entry
RecordOf(r) == [_id |-> HistoryCap + r]

\* requests of one user that have their urls and are about to load the
\* user document; the stored log is empty, short, or at the cap or next to it
InitConcurrent ==
  /\ AtRest
  /\ \E n \in InitialLengths \cup {1} : history = Descending(n)
  /\ probe = [fn |-> "concurrent", version |-> 0,
              reqs |-> [r \in Concurrent |->
                          [pc |-> "findById", doc |-> <<>>, v |-> 0, status |-> 0]]]

\* User.findById settles for request r: it gets its own copy of the stored
\* document, the log and the version key __v; addToHistory changes the copy
\* and calls save()
LoadUser(r, ok) ==
  /\ probe.fn = "concurrent" /\ probe.reqs[r].pc = "findById"
  /\ probe' = [probe EXCEPT !.reqs[r] =
                 IF ok THEN [pc |-> "save", doc |-> addToHistory(history, RecordOf(r)),
                             v |-> probe.version, status |-> 0]
                 ELSE [@ EXCEPT !.pc = "done", !.status = 500]]
  /\ UNCHANGED <<handling, history>>

\* variant: the save does not look at the version key
VersionUnchecked(r) == TRUE

\* unshift marks the whole array modified, so save() sends it as one $set
\* together with the version key the copy was loaded with (the schema keeps
\* the default versionKey): the update matches only an unchanged version
VersionMatches(r) == probe.reqs[r].v = probe.version

\* save() of request r settles: the array is stored and the version key
\* incremented, or the save throws (stale version, or a store error) and
\* the handler answers 500
SaveUser(r, ok) ==
  /\ probe.fn = "concurrent" /\ probe.reqs[r].pc = "save"
  /\ IF ok /\ VersionMatches(r)
       THEN /\ history' = probe.reqs[r].doc
            /\ probe' = [probe EXCEPT !.version = @ + 1,
                                      !.reqs[r] = [@ EXCEPT !.pc = "done", !.status = 200]]
       ELSE /\ probe' = [probe EXCEPT !.reqs[r] = [@ EXCEPT !.pc = "done", !.status = 500]]
            /\ UNCHANGED history
  /\ UNCHANGED handling

NextConcurrent ==
  \/ \E r \in Concurrent, ok \in BOOLEAN : LoadUser(r, ok)
  \/ \E r \in Concurrent, ok \in BOOLEAN : SaveUser(r, ok)

SpecConcurrent == InitConcurrent /\ [][NextConcurrent]_vars

Recorded(r) == \E k \in 1..Len(history) : history[k] = RecordOf(r)

MaxSignups == 2

Signups == 1..MaxSignups

\* email addresses, as stored (trimmed, in lower case)
Emails == {"a@x", "b@x"}

\* the number of accounts with the email
AccountsOf(accounts, email) ==
  Cardinality({k \in 1..Len(accounts) : accounts[k] = email})

\* signup requests in flight, each with a body that passes or fails
\* validateRegistration; one address may be registered already
InitSignup ==
  /\ AtRest /\ history = <<>>
  /\ \E registered \in {<<>>, <<"a@x">>} :
     \E bodies \in [Signups -> [email : Emails, valid : BOOLEAN]] :
       probe = [fn |-> "signup", accounts |-> registered, initial |-> registered,
                reqs |-> [r \in Signups |->
                            [email |-> bodies[r].email, valid |-> bodies[r].valid,
                             pc |-> "validate", status |-> 0, token |-> FALSE]]]

Answer(r, status, token) ==
  [probe EXCEPT !.reqs[r] = [@ EXCEPT !.pc = "done", !.status = status,
                                      !.token = token]]

\* validateRegistration, then the handler up to the await of findOne
ValidateRegistration(r) ==
  /\ probe.fn = "signup" /\ probe.reqs[r].pc = "validate"
  /\ probe' = IF probe.reqs[r].valid
                THEN [probe EXCEPT !.reqs[r] = [@ EXCEPT !.pc = "findOne"]]
                ELSE Answer(r, 400, FALSE)
  /\ UNCHANGED <<handling, history>>

\* User.findOne({ email }) settles: 409 for an existing account, otherwise
\* the new document is built and save() called
FindOneSettles(r, ok) ==
  /\ probe.fn = "signup" /\ probe.reqs[r].pc = "findOne"
  /\ probe' = IF ~ok THEN Answer(r, 500, FALSE)
              ELSE IF AccountsOf(probe.accounts, probe.reqs[r].email) > 0
                THEN Answer(r, 409, FALSE)
              ELSE [probe EXCEPT !.reqs[r] = [@ EXCEPT !.pc = "save"]]
  /\ UNCHANGED <<handling, history>>

\* variant: the email field has no unique index
UniqueEmailUnindexed(accounts, email) == TRUE

\* `unique: true` on email: the store refuses a second document with the
\* same email
UniqueEmail(accounts, email) == AccountsOf(accounts, email) = 0

\* user.save() settles: the account is inserted and the request answered
\* 201 with a token, or the save throws (duplicate key, or a store error)
\* and the request is answered 500
UserSaveSettles(r, ok) ==
  /\ probe.fn = "signup" /\ probe.reqs[r].pc = "save"
  /\ probe' = IF ok /\ UniqueEmail(probe.accounts, probe.reqs[r].email)
                THEN [Answer(r, 201, TRUE) EXCEPT
                        !.accounts = Append(@, probe.reqs[r].email)]
                ELSE Answer(r, 500, FALSE)
  /\ UNCHANGED <<handling, history>>

NextSignup ==
  \/ \E r \in Signups : ValidateRegistration(r)
  \/ \E r \in Signups, ok \in BOOLEAN : FindOneSettles(r, ok)
  \/ \E r \in Signups, ok \in BOOLEAN : UserSaveSettles(r, ok)

SpecSignup == InitSignup /\ [][NextSignup]_vars

\* C30: whatever the interleaving, an email has at most one account and at
\* most one signup answered 201, each 201 with a token and for a new
\* account; a signup for an email registered beforehand creates nothing and
\* is answered 409 (400 for an invalid body, 500 when the lookup fails)
C30_OneAccountPerEmail ==
  probe.fn = "signup" =>
    /\ \A e \in Emails :
         /\ AccountsOf(probe.accounts, e) <= 1
         /\ Cardinality({r \in Signups : probe.reqs[r].email = e
                                          /\ probe.reqs[r].status = 201}) <= 1
         /\ AccountsOf(probe.accounts, e) =
              AccountsOf(probe.initial, e)
                + Cardinality({r \in Signups : probe.reqs[r].email = e
                                               /\ probe.reqs[r].status = 201})
    /\ \A r \in Signups :
         /\ probe.reqs[r].token <=> probe.reqs[r].status = 201
         /\ AccountsOf(probe.initial, probe.reqs[r].email) > 0 =>
              /\ probe.reqs[r].pc # "save"
              /\ probe.reqs[r].pc = "done" => probe.reqs[r].status \in {400, 409, 500}

\* two signups for the same new email both found no account; one created
\* it and the other was refused by the store
C30_Witness ==
  /\ probe.fn = "signup" /\ probe.initial = <<>>
  /\ probe.reqs[1].email = "a@x" /\ probe.reqs[2].email = "a@x"
  /\ probe.reqs[1].status = 201 /\ probe.reqs[2].status = 500
  /\ probe.accounts = <<"a@x">>

====
